---- MODULE Spec2Model ----
(***************************************************************************)
(* Model of the WeeWX Hubitat extension (bin/user/hubitat.py).             *)
(*                                                                         *)
(* Hubitat is the RESTful service object built by the engine at startup;   *)
(* HubitatThread is the posting thread it creates.  The thread's run loop  *)
(* (dequeue, staleness, backlog, post interval, retries) is inherited from *)
(* weewx.restx.RESTThread, which is host-framework code and not part of    *)
(* this repository: the model only carries the position of that loop as an *)
(* unconstrained consumer of the queue.                                    *)
(***************************************************************************)
EXTENDS Integers, Sequences, FiniteSets, TLC

VARIABLES
    phase,          \* "new" before Hubitat.__init__ has run, "constructed" after
    config,         \* the [StdRESTful][[Hubitat]] options handed to __init__
    has_loop_queue, \* the attribute self.loop_queue exists
    loop_queue,     \* contents of self.loop_queue (queue.Queue, FIFO)
    loop_thread,    \* self.loop_thread: None or the started HubitatThread
    bound,          \* NEW_LOOP_PACKET is bound to self.new_loop_packet
    raised,         \* exception the last call on the service raised to its caller
    errlog,         \* number of logerr lines written
    event,          \* packet of the last NEW_LOOP_PACKET event / handler call
    nEvents,        \* number of handler invocations so far
    worker,         \* position of the inherited RESTThread loop
    worker_at_event,\* where the loop was when the handler was last called
    in_hand,        \* records the loop has taken off the queue
    body            \* result of the last get_post_body call

vars == <<phase, config, has_loop_queue, loop_queue, loop_thread, bound, raised,
          errlog, event, nEvents, worker, worker_at_event, in_hand, body>>

----------------------------------------------------------------------------
(* Bounds of the model *)

MaxEvents == 3      \* handler invocations per run
MaxFields == 2      \* fields present in a record given to get_post_body

----------------------------------------------------------------------------
(* Python values *)

None == [isNone |-> TRUE]
Some(v) == [isNone |-> FALSE, val |-> v]

\* Python truthiness of an optional string (a sequence of characters)
Truthy(s) == ~s.isNone /\ s.val # <<>>

\* str.upper() on the characters the configurations below use
UpperChar(c) ==
    CASE c = "u" -> "U" [] c = "s" -> "S" [] c = "m" -> "M" [] c = "e" -> "E"
      [] c = "t" -> "T" [] c = "r" -> "R" [] c = "i" -> "I" [] c = "c" -> "C"
      [] c = "w" -> "W" [] c = "x" -> "X" [] c = "b" -> "B" [] c = "o" -> "O"
      [] c = "g" -> "G"
      [] OTHER -> c

upper(chars) == [i \in 1..Len(chars) |-> UpperChar(chars[i])]

\* weewx.units.unit_constants: unit system name -> unit system id
unit_constants ==
    (<<"U", "S">> :> 1)
    @@ (<<"M", "E", "T", "R", "I", "C">> :> 16)
    @@ (<<"M", "E", "T", "R", "I", "C", "W", "X">> :> 17)

----------------------------------------------------------------------------
(* Startup: Hubitat.__init__ *)

\* Configurations the engine may hand to the service
ServerUrls == {None, Some("http://hub/data")}

TargetUnits ==
    { None,
      Some(<<>>),
      Some(<<"U", "S">>),
      Some(<<"m", "e", "t", "r", "i", "c">>),
      Some(<<"M", "e", "t", "r", "i", "c", "W", "X">>),
      Some(<<"b", "o", "g", "u", "s">>) }

Configs ==
    [server_url : ServerUrls, target_unit : TargetUnits, wx_binding_known : BOOLEAN]

NoConfig == [server_url |-> None, target_unit |-> None, wx_binding_known |-> FALSE]

\* weewx.restx.get_site_dict(config_dict, 'Hubitat', 'server_url'): None when
\* the required option server_url is missing, the section's options otherwise
get_site_dict(cfg) ==
    IF cfg.server_url.isNone
    THEN None
    ELSE Some([server_url |-> cfg.server_url,
               target_unit |-> cfg.target_unit,
               has_manager_dict |-> FALSE])

\* try: site_dict['manager_dict'] = ...  except weewx.UnknownBinding: pass
with_manager_dict(site, cfg) ==
    IF cfg.wx_binding_known THEN [site EXCEPT !.has_manager_dict = TRUE] ELSE site

\* Variant of the target_unit check that lets every name through
InvalidTargetUnitNoCheck(target_unit) == FALSE

\* target_unit and target_unit.upper() not in weewx.units.unit_constants
InvalidTargetUnit(target_unit) ==
    Truthy(target_unit) /\ upper(target_unit.val) \notin DOMAIN unit_constants

\* HubitatThread.__init__(queue, **site_dict): the exception it raises, or the
\* thread object.  manager_dict is a required argument; the unit system is
\* looked up in unit_constants by the upper-cased name.
HubitatThread__init__(site) ==
    IF ~site.has_manager_dict
    THEN [exc |-> "TypeError", thread |-> None]
    ELSE IF Truthy(site.target_unit)
         THEN IF upper(site.target_unit.val) \in DOMAIN unit_constants
              THEN [exc |-> "none",
                    thread |-> Some([server_url |-> site.server_url,
                                     unit_system |->
                                        Some(unit_constants[upper(site.target_unit.val)])])]
              ELSE [exc |-> "KeyError", thread |-> None]
         ELSE [exc |-> "none",
               thread |-> Some([server_url |-> site.server_url, unit_system |-> None])]

Hubitat__init__(cfg) ==
    /\ phase = "new"
    /\ phase' = "constructed"
    /\ config' = cfg
    /\ UNCHANGED <<loop_queue, event, nEvents, worker, worker_at_event, in_hand, body>>
    /\ LET site_dict == get_site_dict(cfg) IN
       IF site_dict.isNone
       THEN \* return
            UNCHANGED <<has_loop_queue, loop_thread, bound, raised, errlog>>
       ELSE LET site == with_manager_dict(site_dict.val, cfg) IN
            IF InvalidTargetUnit(site.target_unit)
            THEN \* logerr(...); return
                 /\ errlog' = errlog + 1
                 /\ UNCHANGED <<has_loop_queue, loop_thread, bound, raised>>
            ELSE LET made == HubitatThread__init__(site) IN
                 /\ has_loop_queue' = TRUE
                 /\ errlog' = errlog
                 /\ IF made.exc # "none"
                    THEN \* the constructor's exception leaves __init__
                         /\ raised' = made.exc
                         /\ UNCHANGED <<loop_thread, bound>>
                    ELSE /\ loop_thread' = made.thread
                         /\ bound' = TRUE
                         /\ raised' = "none"

----------------------------------------------------------------------------
(* Producer side: Hubitat.new_loop_packet *)

\* Loop packets the engine emits (field name -> value, None for a null reading)
LoopPackets ==
    { [outTemp |-> Some(72), outHumidity |-> Some(45)],
      [outTemp |-> None, windDir |-> Some(5)] }

\* Variant of Queue.put that drops the item when the queue is not empty
put_drop(q, item) == IF q = <<>> THEN <<item>> ELSE q

\* queue.Queue().put(item) on a queue without maxsize: appends, never blocks
put(q, item) == Append(q, item)

\* self.loop_queue.put(event.packet); AttributeError when __init__ returned
\* before creating self.loop_queue
new_loop_packet(packet) ==
    /\ event' = packet
    /\ nEvents' = nEvents + 1
    /\ worker_at_event' = worker
    /\ IF has_loop_queue
       THEN /\ loop_queue' = put(loop_queue, packet)
            /\ raised' = "none"
       ELSE /\ raised' = "AttributeError"
            /\ UNCHANGED loop_queue
    /\ UNCHANGED <<phase, config, has_loop_queue, loop_thread, bound, errlog,
                   worker, in_hand, body>>

\* The engine dispatches a NEW_LOOP_PACKET event to the bound handler
DispatchEvent(packet) ==
    /\ phase = "constructed"
    /\ bound
    /\ nEvents < MaxEvents
    /\ new_loop_packet(packet)

\* The handler called on the service object although no binding was made
\* (a bound handler is reached through DispatchEvent)
CallHandler(packet) ==
    /\ phase = "constructed"
    /\ ~bound
    /\ nEvents < MaxEvents
    /\ new_loop_packet(packet)

----------------------------------------------------------------------------
(* Consumer side: the inherited posting loop, as far as the queue sees it *)

WorkerStates == {"IDLE", "THROTTLING", "PROCESSING", "SENDING", "RETRY_WAIT", "DONE"}

\* The loop takes the head of the queue while waiting on it
WorkerGet ==
    /\ ~loop_thread.isNone
    /\ worker = "IDLE"
    /\ loop_queue # <<>>
    /\ in_hand' = Append(in_hand, Head(loop_queue))
    /\ loop_queue' = Tail(loop_queue)
    /\ worker' = "PROCESSING"
    /\ UNCHANGED <<phase, config, has_loop_queue, loop_thread, bound, raised,
                   errlog, event, nEvents, worker_at_event, body>>

\* Any other move of the loop; none of them touches the queue
WorkerMove ==
    /\ ~loop_thread.isNone
    /\ worker # "IDLE"
    /\ \E s \in WorkerStates : s # worker /\ worker' = s
    /\ UNCHANGED <<phase, config, has_loop_queue, loop_queue, loop_thread, bound,
                   raised, errlog, event, nEvents, worker_at_event, in_hand, body>>

----------------------------------------------------------------------------
(* HubitatThread: the field table and get_post_body *)

\* A printf float conversion: '%.1f' is Fmt(FALSE, 0, 1), '%03.1f' is Fmt(TRUE, 3, 1)
Fmt(zero, width, prec) == [zero |-> zero, width |-> width, prec |-> prec]

\* HubitatThread._FORMATS, in source order: record field, payload key, format
_FORMATS ==
    << [wkey |-> "outTemp",     key |-> "temperature",       fmt |-> Fmt(FALSE, 0, 1)],
       [wkey |-> "outHumidity", key |-> "humidity",          fmt |-> Fmt(FALSE, 0, 0)],
       [wkey |-> "windSpeed",   key |-> "windSpeed",         fmt |-> Fmt(TRUE, 3, 1)],
       [wkey |-> "windDir",     key |-> "windDirection",     fmt |-> Fmt(TRUE, 3, 0)],
       [wkey |-> "windGust",    key |-> "windGustSpeed",     fmt |-> Fmt(TRUE, 3, 1)],
       [wkey |-> "windGustDir", key |-> "windGustDirection", fmt |-> Fmt(TRUE, 3, 0)],
       [wkey |-> "appTemp",     key |-> "apptemp",           fmt |-> Fmt(FALSE, 0, 1)],
       [wkey |-> "heatindex",   key |-> "heatindex",         fmt |-> Fmt(FALSE, 0, 1)],
       [wkey |-> "humidex",     key |-> "humidex",           fmt |-> Fmt(FALSE, 0, 1)],
       [wkey |-> "windchill",   key |-> "windchill",         fmt |-> Fmt(FALSE, 0, 1)],
       [wkey |-> "rain",        key |-> "rain",              fmt |-> Fmt(FALSE, 0, 2)],
       [wkey |-> "rainRate",    key |-> "rainRate",          fmt |-> Fmt(FALSE, 0, 2)],
       [wkey |-> "hourRain",    key |-> "hourRain",          fmt |-> Fmt(FALSE, 0, 2)],
       [wkey |-> "dayRain",     key |-> "dayRain",           fmt |-> Fmt(FALSE, 0, 2)],
       [wkey |-> "rain24",      key |-> "rain24",            fmt |-> Fmt(FALSE, 0, 2)],
       [wkey |-> "barometer",   key |-> "barometer",         fmt |-> Fmt(FALSE, 0, 3)],
       [wkey |-> "dewpoint",    key |-> "dewpoint",          fmt |-> Fmt(FALSE, 0, 1)],
       [wkey |-> "cloudbase",   key |-> "cloudbase",         fmt |-> Fmt(FALSE, 0, 0)],
       [wkey |-> "UV",          key |-> "uv",                fmt |-> Fmt(FALSE, 0, 1)],
       [wkey |-> "radiation",   key |-> "radiation",         fmt |-> Fmt(FALSE, 0, 1)],
       [wkey |-> "THSW",        key |-> "THSW",              fmt |-> Fmt(FALSE, 0, 1)] >>

RECURSIVE Zeros(_)
Zeros(n) == IF n <= 0 THEN "" ELSE "0" \o Zeros(n - 1)

\* fmt % value for an integer-valued reading: sign, digits, '.', prec zeros,
\* zero-padded after the sign up to the minimum width
format(fmt, value) ==
    LET sign   == IF value < 0 THEN "-" ELSE ""
        digits == ToString(IF value < 0 THEN -value ELSE value)
        frac   == IF fmt.prec = 0 THEN "" ELSE "." \o Zeros(fmt.prec)
        len    == Len(sign) + Len(digits) + Len(frac)
        pad    == IF fmt.zero THEN Zeros(fmt.width - len) ELSE ""
    IN  sign \o pad \o digits \o frac

\* Fields a record may carry: the table's fields and fields outside the table
RecordFields ==
    {_FORMATS[i].wkey : i \in 1..Len(_FORMATS)} \cup {"dateTime", "usUnits", "inTemp"}

\* Readings: null, zero, a positive and a negative value
Values == {None, Some(0), Some(72), Some(-5)}

RECURSIVE FieldSets(_)
FieldSets(n) ==
    IF n = 0 THEN {{}}
    ELSE LET smaller == FieldSets(n - 1)
         IN  smaller \cup {fs \cup {f} : fs \in smaller, f \in RecordFields}

Records == UNION {[fs -> Values] : fs \in FieldSets(MaxFields)}

\* Variant of the field test that uses the value's truth: "and record[wkey]"
selected_truthy(record, wkey) ==
    wkey \in DOMAIN record /\ ~record[wkey].isNone /\ record[wkey].val # 0

\* wkey in record and record[wkey] is not None
selected(record, wkey) == wkey \in DOMAIN record /\ ~record[wkey].isNone

\* The loop "for wkey in self._FORMATS", from entry i on, filling the dict data
RECURSIVE fill(_, _, _)
fill(record, data, i) ==
    IF i > Len(_FORMATS) THEN data
    ELSE LET e == _FORMATS[i]
         IN  IF selected(record, e.wkey)
             THEN fill(record,
                       [k \in DOMAIN data \cup {e.key} |->
                           IF k = e.key THEN format(e.fmt, record[e.wkey].val)
                           ELSE data[k]],
                       i + 1)
             ELSE fill(record, data, i + 1)

EmptyDict == [k \in {} |-> ""]

NoBody == [called |-> FALSE]

\* get_post_body on the record the posting loop hands to it, once per run.
\* With a unit system set the record that is mapped is the result of
\* weewx.units.to_std_system, a host-library function: any record.  Without
\* one it is the input record itself.
get_post_body ==
    /\ ~loop_thread.isNone
    /\ body = NoBody
    /\ \E record \in Records :
          body' = [called |-> TRUE,
                   converted |-> ~loop_thread.val.unit_system.isNone,
                   record |-> record,
                   data |-> fill(record, EmptyDict, 1),
                   content_type |-> "application/json"]
    /\ UNCHANGED <<phase, config, has_loop_queue, loop_queue, loop_thread, bound,
                   raised, errlog, event, nEvents, worker, worker_at_event, in_hand>>

\* A started pipeline, for each configuration that starts one
InitBody ==
    /\ phase = "constructed"
    /\ config \in {cfg \in Configs :
                      /\ ~get_site_dict(cfg).isNone
                      /\ ~InvalidTargetUnit(cfg.target_unit)
                      /\ cfg.wx_binding_known}
    /\ has_loop_queue = TRUE
    /\ loop_queue = <<>>
    /\ loop_thread =
          HubitatThread__init__(with_manager_dict(get_site_dict(config).val, config)).thread
    /\ bound = TRUE
    /\ raised = "none"
    /\ errlog = 0
    /\ event = None
    /\ nEvents = 0
    /\ worker = "IDLE"
    /\ worker_at_event = "IDLE"
    /\ in_hand = <<>>
    /\ body = NoBody

NextBody == get_post_body

SpecBody == InitBody /\ [][NextBody]_vars

----------------------------------------------------------------------------

Init ==
    /\ phase = "new"
    /\ config = NoConfig
    /\ has_loop_queue = FALSE
    /\ loop_queue = <<>>
    /\ loop_thread = None
    /\ bound = FALSE
    /\ raised = "none"
    /\ errlog = 0
    /\ event = None
    /\ nEvents = 0
    /\ worker = "IDLE"
    /\ worker_at_event = "IDLE"
    /\ in_hand = <<>>
    /\ body = NoBody

Next ==
    \/ \E cfg \in Configs : Hubitat__init__(cfg)
    \/ \E packet \in LoopPackets : DispatchEvent(packet)
    \/ \E packet \in LoopPackets : CallHandler(packet)
    \/ WorkerGet
    \/ WorkerMove

Spec == Init /\ [][Next]_vars

----------------------------------------------------------------------------
(* Properties *)

\* The configuration given at startup has a fatal error: server_url is
\* missing, or target_unit is a non-empty name that, upper-cased, is not a
\* known unit system
FatalConfigError ==
    /\ phase = "constructed"
    /\ \/ config.server_url = None
       \/ /\ config.target_unit \notin {None, Some(<<>>)}
          /\ upper(config.target_unit.val) \notin
                {<<"U", "S">>, <<"M", "E", "T", "R", "I", "C">>,
                 <<"M", "E", "T", "R", "I", "C", "W", "X">>}

\* The pipeline is running: the thread was started and the handler bound
Running == ~loop_thread.isNone /\ bound

\* C1: after a startup that detected a fatal configuration error there is, in
\* every later state, no queue, no delivery thread and no binding of the
\* new-record event; a thread exists only when both checks passed.
C1_DisabledPipeline ==
    /\ FatalConfigError => ~has_loop_queue /\ loop_thread = None /\ ~bound
    /\ loop_thread # None => phase = "constructed" /\ ~FatalConfigError

\* A later state of a pipeline disabled by an invalid target_unit, after the
\* error was logged and a handler call was made
C1_Witness ==
    /\ FatalConfigError
    /\ config.server_url # None
    /\ errlog = 1
    /\ nEvents > 0

\* C2: in a pipeline disabled by a fatal configuration error a call of
\* new_loop_packet is a no-op: nothing is queued and no error is raised to
\* the caller.
C2_DisabledCallIsNoOp ==
    FatalConfigError => raised = "none" /\ loop_queue = <<>> /\ ~has_loop_queue

\* C3: the payload's keys are exactly the destination keys of the table
\* entries whose source field is present and non-null in the mapped record.
C3_PayloadKeys ==
    body.called =>
        DOMAIN body.data =
            {_FORMATS[i].key :
                i \in {j \in 1..Len(_FORMATS) :
                          /\ _FORMATS[j].wkey \in DOMAIN body.record
                          /\ body.record[_FORMATS[j].wkey] # None}}

\* A converted record with a zero reading and a null reading of table fields
C3_Witness ==
    /\ body.called
    /\ body.converted
    /\ body.record = [outTemp |-> Some(0), windDir |-> None]
    /\ body.data = [temperature |-> "0.0"]

\* C10: in a running pipeline the handler can be called wherever the posting
\* loop is, and each call appends the event's packet, unchanged, to the tail
\* of the queue, makes the queue one longer, raises nothing and leaves the
\* loop where it was.
C10_EnqueueAlwaysEnabled ==
    /\ [](Running /\ nEvents < MaxEvents =>
             \A packet \in LoopPackets : ENABLED DispatchEvent(packet))
    /\ [][Running /\ nEvents' = nEvents + 1 =>
             /\ loop_queue' = loop_queue \o <<event'>>
             /\ Len(loop_queue') = Len(loop_queue) + 1
             /\ event' \in LoopPackets
             /\ raised' = "none"
             /\ worker' = worker
             /\ in_hand' = in_hand]_vars

\* A packet was enqueued behind another one while the loop was between retries
C10_Witness ==
    /\ Running
    /\ worker_at_event = "RETRY_WAIT"
    /\ Len(loop_queue) >= 2
    /\ loop_queue[Len(loop_queue)] = event

====
